---- MODULE Spec2Model ----
(***************************************************************************)
(* A model of cypherantic (src/src/cypherantic/__init__.py): the           *)
(* process-wide constraint cache, the four session operations              *)
(* (create_node, create_relationship, retrieve_relationship_edges,         *)
(* refresh_relationship) as coroutines that suspend at every session.run,  *)
(* and the labelled-property graph the session's statements act on.        *)
(*                                                                         *)
(* Python dicts are sets of <<key, value>> pairs, lists are sequences,     *)
(* every scalar value is a string.                                         *)
(***************************************************************************)
EXTENDS Integers, Sequences, FiniteSets, TLC

\* Number of calls a process makes one after another on an empty graph.
MaxCalls == 3
\* Number of calls a process makes on a graph that earlier processes filled.
MaxGraphCalls == 1
\* Number of calls that may be suspended at a session.run at the same time.
MaxActive == 2
\* Number of calls a process makes when its calls overlap.
MaxConcCalls == 2
\* Number of calls a process makes when it creates nodes and unwraps them.
MaxUnwrapCalls == 2

\* The coroutines: a slot is taken by one call at a time.
Calls == 1 .. MaxActive

(***************************************************************************)
(* Dict helpers.                                                           *)
(***************************************************************************)
Has(m, k) == \E p \in m : p[1] = k

Get(m, k) == (CHOOSE p \in m : p[1] = k)[2]

Range(s) == {s[i] : i \in 1 .. Len(s)}

(***************************************************************************)
(* The declared model types.  A field carries what pydantic keeps of its  *)
(* declaration: the origin of its annotation (typing.get_origin), the      *)
(* argument of the generic, the number of Field(unique=True) metadata, the *)
(* Relationship metadata, and whether it has no default.                   *)
(***************************************************************************)
Fld(n, o, a, u, r, q) ==
    [name |-> n, origin |-> o, arg |-> a, unique |-> u, rels |-> r, required |-> q]

Rel(t, d) == [rel_type |-> t, direction |-> d]

\* class Person(BaseModel): name unique, friends: list[PersonEdge] OUTGOING KNOWS
\* class Comment(BaseModel): text
\* class Doc(NodeModel): labels ['Doc', 'Paper'], doc_id and version unique,
\*     and relationship fields of every shape refresh_relationship checks
\* class Ghost(NodeModel): labels [], gid unique
\* class Memo(BaseModel): text: str, author: str | None (no default)
ModelClasses == {"Person", "Comment", "Doc", "Ghost", "Memo"}

model_fields(cls) ==
    CASE cls = "Person" ->
           << Fld("name", "", "", 1, <<>>, TRUE),
              Fld("friends", "list", "PersonEdge", 0,
                  <<Rel("KNOWS", "OUTGOING")>>, FALSE),
              Fld("fans", "list", "PersonEdge", 0,
                  <<Rel("KNOWS", "INCOMING")>>, FALSE) >>
      [] cls = "Comment" ->
           << Fld("text", "", "", 0, <<>>, TRUE) >>
      [] cls = "Doc" ->
           << Fld("doc_id", "", "", 1, <<>>, TRUE),
              Fld("title", "", "", 0, <<>>, TRUE),
              Fld("version", "", "", 1, <<>>, TRUE),
              Fld("tags", "list", "str", 0, <<>>, FALSE),
              Fld("kind", "Literal", "", 0, <<>>, FALSE),
              Fld("owner", "UnionType", "Person", 0,
                  <<Rel("OWNED_BY", "OUTGOING")>>, FALSE),
              Fld("both", "list", "PersonEdge", 0,
                  <<Rel("KNOWS", "OUTGOING"), Rel("KNOWS", "INCOMING")>>, FALSE),
              Fld("loose", "list", "object", 0,
                  <<Rel("KNOWS", "OUTGOING")>>, FALSE),
              Fld("readers", "list", "PersonEdge", 0,
                  <<Rel("KNOWS", "OUTGOING")>>, FALSE) >>
      [] cls = "Ghost" ->
           << Fld("gid", "", "", 1, <<>>, TRUE) >>
      [] cls = "Memo" ->
           << Fld("text", "", "", 1, <<>>, TRUE),
              Fld("author", "UnionType", "str", 0, <<>>, TRUE) >>
      [] cls = "Link" -> << >>
      [] cls = "Friendship" ->
           << Fld("since", "", "", 0, <<>>, TRUE) >>
      [] cls = "Employment" ->
           << Fld("role", "", "", 0, <<>>, TRUE) >>
      [] OTHER -> << >>

\* The class attribute cypherantic_config, a dict.
cypherantic_config(cls) ==
    CASE cls = "Doc" -> {<<"labels", <<"Paper", "Doc">> >>}
      [] cls = "Ghost" -> {<<"labels", << >> >>}
      [] cls = "Employment" -> {<<"rel_type", "EMPLOYED_BY">>}
      [] OTHER -> {}

\* The origins that are subclasses of collections.abc.Sequence.
SequenceOrigins == {"list", "tuple"}

\* The origins that are typing special forms, not classes: issubclass
\* rejects them as its first argument.  (typing.Literal always; typing.Union,
\* the origin of typing.Optional[X], on interpreters where it is not a class;
\* X | None has the class types.UnionType.)
SpecialFormOrigins == {"Literal"}

(***************************************************************************)
(* The model instances the callers hold, and what model_dump(mode='python') *)
(* gives for each.                                                         *)
(***************************************************************************)
Instances == {"alice", "note", "doc", "ghost"}

type(inst) ==
    CASE inst \in {"alice", "bob"} -> "Person"
      [] inst = "note" -> "Comment"
      [] inst = "doc" -> "Doc"
      [] inst = "ghost" -> "Ghost"
      [] inst = "memo" -> "Memo"
      [] inst = "friendship" -> "Friendship"
      [] inst = "employment" -> "Employment"
      [] OTHER -> "NoneType"

model_dump(inst) ==
    CASE inst = "alice" -> {<<"name", "Alice">>, <<"friends", "[]">>, <<"fans", "[]">>}
      [] inst = "bob" -> {<<"name", "Bob">>, <<"friends", "[]">>, <<"fans", "[]">>}
      [] inst = "note" -> {<<"text", "Hi">>}
      [] inst = "doc" -> {<<"doc_id", "D1">>, <<"title", "Intro">>,
                          <<"version", "1">>, <<"tags", "[]">>,
                          <<"kind", "draft">>,
                          <<"owner", "None">>, <<"both", "[]">>,
                          <<"loose", "[]">>, <<"readers", "[]">>}
      [] inst = "ghost" -> {<<"gid", "G1">>}
      [] inst = "memo" -> {<<"text", "Hi">>, <<"author", "None">>}
      [] inst = "friendship" -> {<<"since", "2020">>}
      [] inst = "employment" -> {<<"role", "Engineer">>}

\* getattr(model, field)
getattr(inst, f) == Get(model_dump(inst), f)

(***************************************************************************)
(* Schema reflection and query text.                                       *)
(***************************************************************************)
RECURSIVE join(_, _)
\* sep.join(parts)
join(sep, parts) ==
    IF parts = << >> THEN ""
    ELSE IF Len(parts) = 1 THEN parts[1]
    ELSE parts[1] \o sep \o join(sep, Tail(parts))

RECURSIVE Repeat(_, _)
Repeat(x, n) == IF n = 0 THEN << >> ELSE <<x>> \o Repeat(x, n - 1)

RECURSIVE Dedup(_)
\* The keys of a dict built from a sequence of keys: first occurrences, in order.
Dedup(s) ==
    IF s = << >> THEN << >>
    ELSE LET front == Dedup(SubSeq(s, 1, Len(s) - 1))
             last == s[Len(s)]
         IN  IF last \in Range(front) THEN front ELSE Append(front, last)

RECURSIVE UniqueNames(_)
\* The loop shared by _extract_key_fields and _ensure_constraints: a field's
\* name is appended once for every Field(unique=True) in its metadata.
UniqueNames(fields) ==
    IF fields = << >> THEN << >>
    ELSE Repeat(fields[1].name, fields[1].unique) \o UniqueNames(Tail(fields))

_extract_key_fields(cls) == UniqueNames(model_fields(cls))

_extract_labels(cls) ==
    IF Has(cypherantic_config(cls), "labels")
    THEN Get(cypherantic_config(cls), "labels")
    ELSE <<cls>>

RECURSIVE MatchParts(_, _)
MatchParts(keys, alias) ==
    IF keys = << >> THEN << >>
    ELSE <<keys[1] \o ":" \o "$" \o alias \o "." \o keys[1]>>
         \o MatchParts(Tail(keys), alias)

_build_match_clause_Spaced(cls, param_alias) ==
    LET match_props == Dedup(_extract_key_fields(cls))
    IN  IF match_props # << >>
        THEN "{" \o join(", ", MatchParts(match_props, param_alias)) \o "}"
        ELSE ""

_build_match_clause(cls, param_alias) ==
    LET match_props == Dedup(_extract_key_fields(cls))
    IN  IF match_props # << >>
        THEN "{" \o join(",", MatchParts(match_props, param_alias)) \o "}"
        ELSE ""

\* {field: getattr(model, field) for field in key_fields}
KeyProps(inst, key_fields) == {<<f, getattr(inst, f)>> : f \in Range(key_fields)}

RECURSIVE NProps(_)
NProps(names) ==
    IF names = << >> THEN << >> ELSE <<"n." \o names[1]>> \o NProps(Tail(names))

ConstraintQuery_AllLabels(cls, node_labels, unique_constraints) ==
    "CREATE CONSTRAINT " \o cls \o "_unique" \o " IF NOT EXISTS "
    \o "FOR (n:" \o join("&", node_labels) \o ") REQUIRE ("
    \o join(", ", NProps(unique_constraints)) \o ") IS UNIQUE"

\* The CREATE CONSTRAINT text of _ensure_constraints.
ConstraintQuery(cls, node_labels, unique_constraints) ==
    "CREATE CONSTRAINT " \o cls \o "_unique" \o " IF NOT EXISTS "
    \o "FOR (n:" \o node_labels[1] \o ") REQUIRE ("
    \o join(", ", NProps(unique_constraints)) \o ") IS UNIQUE"

\* The labels create_node resolves from the instance's cypherantic_config.
NodeLabels(inst) ==
    IF Has(cypherantic_config(type(inst)), "labels")
    THEN Get(cypherantic_config(type(inst)), "labels")
    ELSE <<type(inst)>>

\* A field is left out of the properties when its metadata holds a Relationship.
IsRelationshipField(fld) == fld.rels # << >>

NodeProperties_Empty(inst) == {}

NodeProperties_AllFields(inst) == model_dump(inst)

\* The properties dict create_node binds.
NodeProperties(inst) ==
    {p \in model_dump(inst) :
        \E i \in 1 .. Len(model_fields(type(inst))) :
            /\ model_fields(type(inst))[i].name = p[1]
            /\ ~IsRelationshipField(model_fields(type(inst))[i])}

CreateNodeQuery(node_labels) ==
    "CREATE (n:" \o join("&", node_labels) \o " $properties) RETURN n"

CreateRelationshipQuery(from_cls, to_cls) ==
    "MATCH (a:" \o join("&", _extract_labels(from_cls)) \o " "
    \o _build_match_clause(from_cls, "from_node_props") \o ")"
    \o " WITH a "
    \o "MATCH (b:" \o join("&", _extract_labels(to_cls)) \o " "
    \o _build_match_clause(to_cls, "to_node_props") \o ")"
    \o " CREATE (a)-[r:$($rel_name) $rel_props]->(b)"
    \o " RETURN r"

RetrieveQuery(cls, direction) ==
    LET a == "(a:" \o join("&", _extract_labels(cls)) \o " "
             \o _build_match_clause(cls, "from_node_props") \o ")"
    IN  IF direction = "INCOMING"
        THEN "MATCH (b)-[r:$($rel_name)]->" \o a \o " RETURN r, b"
        ELSE IF direction = "OUTGOING"
        THEN "MATCH " \o a \o "-[r:$($rel_name)]->(b)" \o " RETURN r, b"
        ELSE "MATCH " \o a \o "-[r:$($rel_name)]-(b)" \o " RETURN r, b"

(***************************************************************************)
(* Edge types: typing.get_type_hints and the initializer's parameters.     *)
(***************************************************************************)
BaseModelClasses ==
    {"Person", "Comment", "Doc", "Ghost", "Memo", "Link", "Friendship",
     "Employment"}

get_type_hints(tp) ==
    CASE tp = "PersonEdge" -> {<<"node", "Person">>, <<"properties", "Link">>}
      [] tp = "CommentEdge" -> {<<"node", "Comment">>, <<"properties", "Link">>}
      [] tp = "HalfEdge" -> {<<"node", "Person">>}
      [] tp = "StrEdge" -> {<<"node", "str">>, <<"properties", "Link">>}
      [] tp = "RawEdge" -> {<<"node", "Person">>, <<"properties", "dict">>}
      [] tp = "NoInitEdge" -> {<<"node", "Person">>, <<"properties", "Link">>}
      [] OTHER -> {}

signature_parameters(tp) ==
    CASE tp \in {"PersonEdge", "CommentEdge", "HalfEdge", "StrEdge", "RawEdge"} ->
           {"node", "properties"}
      [] OTHER -> {}

NoError == [kind |-> "", msg |-> ""]

\* The error classes that are ValueErrors: InvalidValueError and its
\* subclass InvalidRelationshipError, not their base CypheranticError.
ValueErrorKinds == {"InvalidValueError", "InvalidRelationshipError"}

Error(k, m) == [kind |-> k, msg |-> m]

\* What _validate_edge_type raises for tp; NoError when it returns.
_validate_edge_type(tp) ==
    LET type_info == get_type_hints(tp)
    IN  IF ~Has(type_info, "node") \/ ~Has(type_info, "properties")
        THEN Error("TypeError",
                   "Edge type must have \"node\" and \"properties\" attributes")
        ELSE IF Get(type_info, "node") \notin BaseModelClasses
        THEN Error("TypeError",
                   "\"node\" attribute must be a pydantic BaseModel subclass")
        ELSE IF Get(type_info, "properties") \notin BaseModelClasses
        THEN Error("TypeError",
                   "\"properties\" attribute must be a pydantic BaseModel subclass")
        ELSE IF "node" \notin signature_parameters(tp)
                \/ "properties" \notin signature_parameters(tp)
        THEN Error("TypeError",
                   "Edge type must have \"node\" and \"properties\" parameters in its initializer")
        ELSE NoError

(***************************************************************************)
(* The graph behind the session.  A node is [id, labels, props], a         *)
(* relationship [id, type, start, end, props].                             *)
(***************************************************************************)
\* The properties a CREATE clause stores from a bound map: a null value is
\* not stored.
StoredProps(properties) == {p \in properties : p[2] # "None"}

\* (x:L1&L2 {k: $alias.k, ...}): the nodes carrying every label and agreeing
\* with the bound map on every key of the match clause.
MatchNodes(graph_nodes, labels, keys, bound) ==
    {n \in graph_nodes :
        /\ Range(labels) \subseteq n.labels
        /\ \A k \in Range(keys) :
              Has(n.props, k) /\ Has(bound, k) /\ Get(n.props, k) = Get(bound, k)}

NodeById(graph_nodes, id) == CHOOSE n \in graph_nodes : n.id = id

\* MATCH (a..) WITH a MATCH (b..) CREATE (a)-[r]->(b): one pair per row.
MatchPairs(graph_nodes, stmt) ==
    {<<a.id, b.id>> :
        a \in MatchNodes(graph_nodes, stmt.source_labels, stmt.source_keys,
                         stmt.params.from_node_props),
        b \in MatchNodes(graph_nodes, stmt.target_labels, stmt.target_keys,
                         stmt.params.to_node_props)}

PairBefore(p, q) == p[1] < q[1] \/ (p[1] = q[1] /\ p[2] < q[2])

CreatedRels_Reversed(graph_nodes, stmt, next_id) ==
    LET pairs == MatchPairs(graph_nodes, stmt)
    IN  {[id |-> next_id + Cardinality({q \in pairs : PairBefore(q, p)}),
          type |-> stmt.params.rel_name,
          start |-> p[2],
          end |-> p[1],
          props |-> stmt.params.rel_props] : p \in pairs}

CreatedRels_FirstPair(graph_nodes, stmt, next_id) ==
    LET pairs == MatchPairs(graph_nodes, stmt)
    IN  {[id |-> next_id,
          type |-> stmt.params.rel_name,
          start |-> p[1],
          end |-> p[2],
          props |-> stmt.params.rel_props] :
            p \in {q \in pairs : \A o \in pairs : o = q \/ PairBefore(q, o)}}

\* The relationships the CREATE clause adds, numbered from next_id on.
CreatedRels(graph_nodes, stmt, next_id) ==
    LET pairs == MatchPairs(graph_nodes, stmt)
    IN  {[id |-> next_id + Cardinality({q \in pairs : PairBefore(q, p)}),
          type |-> stmt.params.rel_name,
          start |-> p[1],
          end |-> p[2],
          props |-> stmt.params.rel_props] : p \in pairs}

RetrieveRows_OutgoingOnly(graph_nodes, graph_rels, stmt) ==
    LET as == {n.id : n \in MatchNodes(graph_nodes, stmt.source_labels,
                                       stmt.source_keys,
                                       stmt.params.from_node_props)}
        typed == {r \in graph_rels : r.type = stmt.params.rel_name}
    IN  {<<r.id, r.end>> : r \in {x \in typed : x.start \in as}}

\* The rows <<r, b>> of the three retrieval patterns.
RetrieveRows(graph_nodes, graph_rels, stmt) ==
    LET as == {n.id : n \in MatchNodes(graph_nodes, stmt.source_labels,
                                       stmt.source_keys,
                                       stmt.params.from_node_props)}
        typed == {r \in graph_rels : r.type = stmt.params.rel_name}
        outgoing == {<<r.id, r.end>> : r \in {x \in typed : x.start \in as}}
        incoming == {<<r.id, r.start>> : r \in {x \in typed : x.end \in as}}
    IN  IF stmt.direction = "INCOMING" THEN incoming
        ELSE IF stmt.direction = "OUTGOING" THEN outgoing
        ELSE outgoing \cup incoming

RECURSIVE SortRows(_)
\* The rows as the result stream yields them (here: by relationship id, then
\* by the other node's id).
SortRows(rows) ==
    IF rows = {} THEN << >>
    ELSE LET first == CHOOSE p \in rows : \A q \in rows : p = q \/ PairBefore(p, q)
         IN  <<first>> \o SortRows(rows \ {first})

\* cls.model_validate(mapping) succeeds when every required field is there.
CanValidate(cls, props) ==
    \A i \in 1 .. Len(model_fields(cls)) :
        model_fields(cls)[i].required => Has(props, model_fields(cls)[i].name)

\* The instance cls.model_validate(mapping) builds: the declared fields only.
model_validate(cls, props) ==
    [cls |-> cls,
     values |-> {p \in props :
                   \E i \in 1 .. Len(model_fields(cls)) :
                       model_fields(cls)[i].name = p[1]}]

(***************************************************************************)
(* State.                                                                  *)
(***************************************************************************)
VARIABLES
    _known_constraints,  \* the module-level set of model classes
    nodes,               \* the graph's nodes
    rels,                \* the graph's relationships
    next_id,             \* the next element id the graph hands out
    attrs,               \* the callers' instances: their relationship fields
    calls,               \* the coroutines: arguments, position, outcome
    started,             \* how many calls were started
    stats                \* per class: what its create_node calls issued so far

vars == <<_known_constraints, nodes, rels, next_id, attrs, calls, started, stats>>

\* A session is a plain (auto-commit) session or an explicit transaction
\* (isinstance(session, neo4j.AsyncTransaction)).
Sessions == {"session", "tx"}

\* The relationship fields refresh_relationship can assign.
RelationFields == {<<"alice", "friends">>, <<"alice", "fans">>, <<"doc", "readers">>}

NoCall ==
    [op |-> "", pc |-> "idle", session |-> "", model |-> "", to_node |-> "",
     rel_props |-> "None", rel_type |-> "None", direction |-> "",
     edge_cls |-> "", rel_property |-> "",
     stmts |-> << >>, raised |-> NoError, returned |-> << >>, rows |-> << >>,
     known_at_start |-> {}, nth |-> 0, after_failure |-> FALSE,
     after_tx_only |-> FALSE, after_plain |-> FALSE, prior |-> << >>, failed |-> "",
     cls |-> "", node |-> 0, result |-> << >>]

\* One session.run(query, **parameters), with the parts of the query text the
\* graph reads.
Stmt(kind, query, params) ==
    [kind |-> kind, query |-> query, params |-> params, cls |-> "",
     source_labels |-> << >>, source_keys |-> << >>,
     target_labels |-> << >>, target_keys |-> << >>, direction |-> ""]

Suspended(c) == calls[c].pc \notin {"idle", "done"}

\* A call takes the lowest free slot.
CanStart(c) ==
    /\ calls[c].pc = "idle"
    /\ \A d \in Calls : d < c => Suspended(d)

\* Calls are made one after another, at most limit of them.
Serial(limit) == started < limit /\ \A d \in Calls : ~Suspended(d)

LastStmt(c) == calls[c].stmts[Len(calls[c].stmts)]

Propagate_Wrapped(stmt_kind) == Error("CypheranticError", stmt_kind)

\* Line 354, and the awaits on its result: what the session raised for the
\* statement is what the coroutine raises.
Propagate(stmt_kind) == Error("SessionError", stmt_kind)

NoStats == [calls |-> 0, constraints |-> 0, creates |-> 0, clean |-> TRUE,
            constraint_failed |-> FALSE, tx_only |-> TRUE, constrained |-> FALSE]

(***************************************************************************)
(* The graph the session is opened on holds what earlier processes left.   *)
(***************************************************************************)
StoredNode(model, id) ==
    [id |-> id,
     labels |-> Range(NodeLabels(model)),
     props |-> StoredProps(NodeProperties(model)),
     of |-> model]

StoredRel(id, rel_name, a, b, props) ==
    [id |-> id, type |-> rel_name, start |-> a, end |-> b, props |-> props]

EmptyGraph == [nodes |-> {}, rels |-> {}, next_id |-> 1]

FilledGraphs ==
    { [nodes |-> {StoredNode("alice", 1), StoredNode("bob", 2)},
       rels |-> {}, next_id |-> 3],
      [nodes |-> {StoredNode("alice", 1), StoredNode("bob", 2), StoredNode("doc", 3)},
       rels |-> {StoredRel(4, "KNOWS", 1, 2, {}),
                 StoredRel(5, "KNOWS", 2, 1, {}),
                 StoredRel(6, "Friendship", 1, 2, model_dump("friendship")),
                 StoredRel(7, "OWNED_BY", 3, 1, {})},
       next_id |-> 8],
      [nodes |-> {StoredNode("note", 1), StoredNode("note", 2)},
       rels |-> {StoredRel(3, "KNOWS", 1, 2, {})}, next_id |-> 4],
      [nodes |-> {StoredNode("alice", 1), StoredNode("note", 2)},
       rels |-> {StoredRel(3, "KNOWS", 1, 2, {})}, next_id |-> 4],
      [nodes |-> {StoredNode("alice", 1)},
       rels |-> {StoredRel(2, "KNOWS", 1, 1, {})}, next_id |-> 3],
      [nodes |-> {StoredNode("alice", 1), StoredNode("bob", 2), StoredNode("note", 3)},
       rels |-> {StoredRel(4, "KNOWS", 1, 2, {}), StoredRel(5, "KNOWS", 1, 3, {})},
       next_id |-> 6] }

\* The relationship fields of freshly built instances: their default, [].
NoEdges == [f \in RelationFields |-> << >>]

\* An edge an instance still holds from an earlier refresh.
StaleEdge ==
    [node |-> model_validate("Person", {<<"name", "Zed">>}),
     properties |-> model_validate("Link", {})]

HeldEdges == {NoEdges, [NoEdges EXCEPT ![<<"alice", "friends">>] = <<StaleEdge>>]}

\* The process starts with an empty cache, on graph g, its instances
\* holding the edges held.
InitHolding(g, held) ==
    /\ _known_constraints = {}
    /\ nodes = g.nodes
    /\ rels = g.rels
    /\ next_id = g.next_id
    /\ attrs = held
    /\ calls = [c \in Calls |-> NoCall]
    /\ started = 0
    /\ stats = [cls \in ModelClasses |-> NoStats]

InitOn(g) == InitHolding(g, NoEdges)

Init == InitOn(EmptyGraph)

GraphInit ==
    \E g \in FilledGraphs \cup {EmptyGraph}, held \in HeldEdges : InitHolding(g, held)

(***************************************************************************)
(* create_node                                                             *)
(***************************************************************************)
\* Line 102: the cache test that guards the call of _ensure_constraints.
NotKnown(model_cls, known) == model_cls \notin known

EnsureReturnsEarly_IgnoresTransaction(session, model_cls, node_labels, known) ==
    \/ node_labels = << >>
    \/ model_cls \in known

\* Lines 326-330: the early returns of _ensure_constraints.
EnsureReturnsEarly(session, model_cls, node_labels, known) ==
    \/ session = "tx"
    \/ node_labels = << >>
    \/ model_cls \in known

\* Lines 332-336: the unique fields, in declaration order.
UniqueConstraints(model_cls) == UniqueNames(model_fields(model_cls))

KnownAfterRun_NeverAdds(known, model_cls, outcome) == known

KnownAfterRun_AddsOnFailure(known, model_cls, outcome) == known \cup {model_cls}

KnownAfterRun_ResetsOnFailure(known, model_cls, outcome) ==
    IF outcome = "ok" THEN known \cup {model_cls} ELSE {}

\* Line 345, reached only when the awaited statement did not raise.
KnownAfterRun(known, model_cls, outcome) ==
    IF outcome = "ok" THEN known \cup {model_cls} ELSE known

ConstraintStmt(model_cls, node_labels) ==
    [Stmt("constraint",
          ConstraintQuery(model_cls, node_labels, UniqueConstraints(model_cls)),
          << >>)
     EXCEPT !.cls = model_cls]

CreateNodeStmt(model) ==
    [Stmt("create_node", CreateNodeQuery(NodeLabels(model)),
          [properties |-> NodeProperties(model)])
     EXCEPT !.cls = type(model), !.source_labels = NodeLabels(model)]

IssuesConstraint_IgnoresUnique(session, model, known) ==
    /\ NotKnown(type(model), known)
    /\ ~EnsureReturnsEarly(session, type(model), NodeLabels(model), known)

IssuesConstraint_IgnoresCache(session, model, known) ==
    /\ session # "tx"
    /\ NodeLabels(model) # << >>
    /\ UniqueConstraints(type(model)) # << >>

\* Whether lines 102-103 and 326-344 end in a constraint statement.
IssuesConstraint(session, model, known) ==
    /\ NotKnown(type(model), known)
    /\ ~EnsureReturnsEarly(session, type(model), NodeLabels(model), known)
    /\ UniqueConstraints(type(model)) # << >>

IssuedAtStart_Both(constraint, model) ==
    IF constraint
    THEN <<ConstraintStmt(type(model), NodeLabels(model)), CreateNodeStmt(model)>>
    ELSE <<CreateNodeStmt(model)>>

\* The statement the call awaits first: the constraint statement of line
\* 344 if there is one, else the creation statement of line 114.
IssuedAtStart(constraint, model) ==
    IF constraint
    THEN <<ConstraintStmt(type(model), NodeLabels(model))>>
    ELSE <<CreateNodeStmt(model)>>

RecordsUnconstrained_Never(session, model, known) == FALSE

RecordsUnconstrained_Eager(session, model, known) ==
    /\ NotKnown(type(model), known)
    /\ ~EnsureReturnsEarly(session, type(model), NodeLabels(model), known)

\* Whether lines 102-103 and 326-345 reach line 345 without a statement:
\* _ensure_constraints found no unique field.
RecordsUnconstrained(session, model, known) ==
    /\ NotKnown(type(model), known)
    /\ ~EnsureReturnsEarly(session, type(model), NodeLabels(model), known)
    /\ UniqueConstraints(type(model)) = << >>

\* Lines 93-114 up to the first session.run the call awaits.
CreateNodeCall(c, session, model) ==
    LET model_cls == type(model)
        node_labels == NodeLabels(model)
        constraint == IssuesConstraint(session, model, _known_constraints)
        start == [NoCall EXCEPT !.op = "create_node", !.session = session,
                                !.model = model,
                                !.known_at_start = _known_constraints,
                                !.nth = stats[model_cls].calls + 1,
                                !.after_failure =
                                    session = "session"
                                    /\ stats[model_cls].constraint_failed,
                                !.after_tx_only =
                                    /\ session = "session"
                                    /\ stats[model_cls].calls > 0
                                    /\ stats[model_cls].tx_only,
                                !.after_plain = ~stats[model_cls].tx_only]
    IN  /\ CanStart(c)
        /\ started' = started + 1
        /\ calls' = [calls EXCEPT ![c] =
              IF constraint
              THEN [start EXCEPT !.pc = "constraint",
                                 !.stmts = IssuedAtStart(constraint, model)]
              ELSE [start EXCEPT !.pc = "create",
                                 !.stmts = IssuedAtStart(constraint, model)]]
        /\ _known_constraints' =
              IF RecordsUnconstrained(session, model, _known_constraints)
              THEN _known_constraints \cup {model_cls}
              ELSE _known_constraints
        /\ stats' = [stats EXCEPT ![model_cls] =
              [@ EXCEPT !.calls = @ + 1,
                        !.constraints = IF constraint THEN @ + 1 ELSE @,
                        !.creates = IF constraint THEN @ ELSE @ + 1,
                        !.clean = @ /\ session = "session",
                        !.constraint_failed = @ /\ session # "session",
                        !.tx_only = @ /\ session = "tx"]]
        /\ UNCHANGED <<nodes, rels, next_id, attrs>>

\* The constraint statement returns or raises (lines 344-345), and on return
\* the call goes on to the node-creation statement (lines 105-114).
ConstraintReturn(c, outcome) ==
    LET model_cls == type(calls[c].model)
    IN  /\ calls[c].pc = "constraint"
        /\ _known_constraints' =
              KnownAfterRun(_known_constraints, model_cls, outcome)
        /\ calls' = [calls EXCEPT ![c] =
              IF outcome = "ok"
              THEN [@ EXCEPT !.pc = "create",
                             !.stmts = Append(@, CreateNodeStmt(calls[c].model))]
              ELSE [@ EXCEPT !.pc = "done", !.failed = "constraint",
                             !.raised = Propagate("constraint")]]
        /\ stats' = [stats EXCEPT ![model_cls] =
              IF outcome = "ok"
              THEN [@ EXCEPT !.creates = @ + 1,
                             !.constrained = @ \/ calls[c].session = "session"]
              ELSE [@ EXCEPT !.clean = FALSE, !.constraint_failed = TRUE]]
        /\ UNCHANGED <<nodes, rels, next_id, attrs, started>>

\* The node the CREATE clause adds (of: the instance it was created from,
\* filled in by the call).
CreatedNode(stmt, id) ==
    [id |-> id, labels |-> Range(stmt.source_labels),
     props |-> StoredProps(stmt.params.properties), of |-> ""]

NoNodeError_ValueKind == Error("InvalidValueError", "Failed to create node")

\* Lines 116-117: what create_node raises when result.single() gives None.
NoNodeError == Error("CypheranticError", "Failed to create node")

\* The node-creation statement returns a row, returns none, raises, or its
\* result cannot be read (lines 114-118).
CreateReturn(c, outcome) ==
    LET stmt == LastStmt(c)
        executed == outcome \in {"row", "readfail"}
        model_cls == type(calls[c].model)
    IN  /\ calls[c].pc = "create"
        /\ nodes' = IF executed
                    THEN nodes \cup {[CreatedNode(stmt, next_id)
                                         EXCEPT !.of = calls[c].model]}
                    ELSE nodes
        /\ next_id' = IF executed THEN next_id + 1 ELSE next_id
        /\ calls' = [calls EXCEPT ![c] =
              CASE outcome = "row" ->
                     [@ EXCEPT !.pc = "done", !.returned = <<next_id>>]
                [] outcome = "empty" ->
                     [@ EXCEPT !.pc = "done", !.raised = NoNodeError]
                [] OTHER ->
                     [@ EXCEPT !.pc = "done", !.failed = "create_node",
                               !.raised = Propagate("create_node")]]
        /\ stats' = [stats EXCEPT ![model_cls].clean =
                        @ /\ outcome \in {"row", "empty"}]
        /\ UNCHANGED <<_known_constraints, rels, attrs, started>>

(***************************************************************************)
(* create_relationship                                                     *)
(***************************************************************************)
HasRelName_Always(rel_props, rel_type) == TRUE

\* Lines 148-157: whether a relationship name can be resolved at all.
HasRelName(rel_props, rel_type) == rel_type # "None" \/ rel_props # "None"

RelName_PropertiesFirst(rel_props, rel_type) ==
    IF rel_props # "None"
    THEN IF Has(cypherantic_config(type(rel_props)), "rel_type")
         THEN Get(cypherantic_config(type(rel_props)), "rel_type")
         ELSE type(rel_props)
    ELSE rel_type

\* Lines 148-155: the explicit name, else the properties class's configured
\* rel_type, else the properties class's name.
RelName(rel_props, rel_type) ==
    IF rel_type # "None" THEN rel_type
    ELSE IF Has(cypherantic_config(type(rel_props)), "rel_type")
    THEN Get(cypherantic_config(type(rel_props)), "rel_type")
    ELSE type(rel_props)

\* Lines 170-177: the key values bound for one side, {} without key fields.
NodePropsParam(model) ==
    IF _extract_key_fields(type(model)) # << >>
    THEN KeyProps(model, _extract_key_fields(type(model)))
    ELSE {}

\* Lines 165 and 178-179.
RelPropsParam(rel_props) ==
    IF rel_props # "None" THEN model_dump(rel_props) ELSE {}

CreateRelationshipStmt_Interpolated(from_node, to_node, rel_props, rel_type) ==
    [Stmt("create_relationship",
          "MATCH (a:" \o join("&", _extract_labels(type(from_node))) \o " "
          \o _build_match_clause(type(from_node), "from_node_props") \o ")"
          \o " WITH a "
          \o "MATCH (b:" \o join("&", _extract_labels(type(to_node))) \o " "
          \o _build_match_clause(type(to_node), "to_node_props") \o ")"
          \o " CREATE (a)-[r:" \o RelName(rel_props, rel_type) \o " $rel_props]->(b)"
          \o " RETURN r",
          [from_node_props |-> NodePropsParam(from_node),
           rel_name |-> RelName(rel_props, rel_type),
           rel_props |-> RelPropsParam(rel_props),
           to_node_props |-> NodePropsParam(to_node)])
     EXCEPT !.source_labels = _extract_labels(type(from_node)),
            !.source_keys = Dedup(_extract_key_fields(type(from_node))),
            !.target_labels = _extract_labels(type(to_node)),
            !.target_keys = Dedup(_extract_key_fields(type(to_node)))]

\* Lines 162-195: the statement create_relationship runs.
CreateRelationshipStmt(from_node, to_node, rel_props, rel_type) ==
    [Stmt("create_relationship",
          CreateRelationshipQuery(type(from_node), type(to_node)),
          [from_node_props |-> NodePropsParam(from_node),
           rel_name |-> RelName(rel_props, rel_type),
           rel_props |-> RelPropsParam(rel_props),
           to_node_props |-> NodePropsParam(to_node)])
     EXCEPT !.source_labels = _extract_labels(type(from_node)),
            !.source_keys = Dedup(_extract_key_fields(type(from_node))),
            !.target_labels = _extract_labels(type(to_node)),
            !.target_keys = Dedup(_extract_key_fields(type(to_node)))]

\* Lines 148-195 up to the session.run the call awaits.
CreateRelationshipCall(c, from_node, to_node, rel_props, rel_type) ==
    LET start == [NoCall EXCEPT !.op = "create_relationship",
                                !.model = from_node, !.to_node = to_node,
                                !.rel_props = rel_props, !.rel_type = rel_type,
                                !.known_at_start = _known_constraints]
    IN  /\ CanStart(c)
        /\ started' = started + 1
        /\ calls' = [calls EXCEPT ![c] =
              IF HasRelName(rel_props, rel_type)
              THEN [start EXCEPT !.pc = "relationship",
                                 !.stmts = <<CreateRelationshipStmt(
                                               from_node, to_node, rel_props, rel_type)>>]
              ELSE [start EXCEPT !.pc = "done",
                                 !.raised = Error("CypheranticError",
                                     "Either rel_cls or rel_type must be provided")]]
        /\ UNCHANGED <<_known_constraints, nodes, rels, next_id, attrs, stats>>

\* Lines 187-199: the statement returns its rows, raises, or its result
\* cannot be read; result.single() hands back the first row, None without rows.
RelationshipReturn(c, outcome) ==
    LET stmt == LastStmt(c)
        executed == outcome \in {"ok", "readfail"}
        created == IF executed THEN CreatedRels(nodes, stmt, next_id) ELSE {}
    IN  /\ calls[c].pc = "relationship"
        /\ rels' = rels \cup created
        /\ next_id' = next_id + Cardinality(created)
        /\ \E first \in (IF created = {} THEN {0} ELSE {r.id : r \in created}) :
              calls' = [calls EXCEPT ![c] =
                 CASE outcome = "ok" /\ created # {} ->
                        [@ EXCEPT !.pc = "done", !.returned = <<first>>,
                                  !.rows = SortRows({<<r.id, r.end>> : r \in created})]
                   [] outcome = "ok" /\ created = {} ->
                        [@ EXCEPT !.pc = "done",
                                  !.raised = Error("CypheranticError",
                                                   "Failed to create relationship")]
                   [] OTHER ->
                        [@ EXCEPT !.pc = "done", !.failed = "create_relationship",
                                  !.raised = Propagate("create_relationship")]]
        /\ UNCHANGED <<_known_constraints, nodes, attrs, started, stats>>

(***************************************************************************)
(* retrieve_relationship_edges and refresh_relationship                    *)
(***************************************************************************)
\* Lines 254-281: the statement retrieve_relationship_edges runs.
RetrieveStmt(model, rel_name, direction) ==
    [Stmt("retrieve", RetrieveQuery(type(model), direction),
          [from_node_props |-> NodePropsParam(model), rel_name |-> rel_name])
     EXCEPT !.source_labels = _extract_labels(type(model)),
            !.source_keys = Dedup(_extract_key_fields(type(model))),
            !.direction = direction]

RetrieveFrom_ValidatesAfterRun(start, model, rel_name, direction, edge_cls) ==
    IF _validate_edge_type(edge_cls) # NoError
    THEN [start EXCEPT !.pc = "done", !.raised = _validate_edge_type(edge_cls),
                       !.stmts = <<RetrieveStmt(model, rel_name, direction)>>]
    ELSE [start EXCEPT !.pc = "edges", !.edge_cls = edge_cls,
                       !.direction = direction,
                       !.stmts = <<RetrieveStmt(model, rel_name, direction)>>]

RetrieveFrom_EnsuresConstraints(start, model, rel_name, direction, edge_cls) ==
    IF _validate_edge_type(edge_cls) # NoError
    THEN [start EXCEPT !.pc = "done", !.raised = _validate_edge_type(edge_cls)]
    ELSE [start EXCEPT !.pc = "edges", !.edge_cls = edge_cls,
                       !.direction = direction,
                       !.stmts = <<ConstraintStmt(type(model), <<type(model)>>),
                                   RetrieveStmt(model, rel_name, direction)>>]

\* Lines 251-281 up to the session.run, for the call in start.
RetrieveFrom(start, model, rel_name, direction, edge_cls) ==
    IF _validate_edge_type(edge_cls) # NoError
    THEN [start EXCEPT !.pc = "done", !.raised = _validate_edge_type(edge_cls)]
    ELSE [start EXCEPT !.pc = "edges", !.edge_cls = edge_cls,
                       !.direction = direction,
                       !.stmts = <<RetrieveStmt(model, rel_name, direction)>>]

RetrieveCall(c, model, rel_name, direction, edge_cls) ==
    LET start == [NoCall EXCEPT !.op = "retrieve_relationship_edges",
                                !.model = model, !.rel_type = rel_name,
                                !.edge_cls = edge_cls, !.direction = direction,
                                !.known_at_start = _known_constraints]
    IN  /\ CanStart(c)
        /\ started' = started + 1
        /\ calls' = [calls EXCEPT ![c] =
                        RetrieveFrom(start, model, rel_name, direction, edge_cls)]
        /\ UNCHANGED <<_known_constraints, nodes, rels, next_id, attrs, stats>>

FieldNames(cls) == {model_fields(cls)[i].name : i \in 1 .. Len(model_fields(cls))}

FieldInfo(cls, name) ==
    model_fields(cls)[CHOOSE i \in 1 .. Len(model_fields(cls)) :
                         model_fields(cls)[i].name = name]

\* Lines 207-232: what refresh_relationship raises before it retrieves.
RefreshError(model_cls, rel_property) ==
    IF rel_property \notin FieldNames(model_cls)
    THEN Error("InvalidValueError", "Relation " \o rel_property \o " does not exist")
    ELSE IF FieldInfo(model_cls, rel_property).origin = ""
    THEN Error("InvalidRelationshipError",
               "Missing or incorrect generic type for " \o rel_property)
    ELSE IF FieldInfo(model_cls, rel_property).origin \in SpecialFormOrigins
    THEN Error("TypeError", "issubclass() arg 1 must be a class")
    ELSE IF FieldInfo(model_cls, rel_property).origin \notin SequenceOrigins
    THEN Error("InvalidRelationshipError",
               "Relation " \o rel_property \o " is not a sequence")
    ELSE IF Len(FieldInfo(model_cls, rel_property).rels) # 1
    THEN Error("InvalidRelationshipError",
               "Missing or incorrect Relationship for " \o rel_property)
    ELSE NoError

\* Lines 207-240 and 251-281 up to the session.run the call awaits.
RefreshCall(c, model, rel_property) ==
    LET start == [NoCall EXCEPT !.op = "refresh_relationship",
                                !.model = model, !.rel_property = rel_property,
                                !.known_at_start = _known_constraints,
                                !.prior = IF <<model, rel_property>> \in RelationFields
                                          THEN attrs[<<model, rel_property>>]
                                          ELSE << >>]
        err == RefreshError(type(model), rel_property)
        field == FieldInfo(type(model), rel_property)
    IN  /\ CanStart(c)
        /\ started' = started + 1
        /\ calls' = [calls EXCEPT ![c] =
              IF err # NoError
              THEN [start EXCEPT !.pc = "done", !.raised = err]
              ELSE RetrieveFrom([start EXCEPT !.rel_type = field.rels[1].rel_type],
                                model, field.rels[1].rel_type,
                                field.rels[1].direction, field.arg)]
        /\ UNCHANGED <<_known_constraints, nodes, rels, next_id, attrs, stats>>

\* Line 286 for one row <<r, b>>.
HydrateRow(graph_nodes, graph_rels, edge_cls, row) ==
    [node |-> model_validate(Get(get_type_hints(edge_cls), "node"),
                             NodeById(graph_nodes, row[2]).props),
     properties |-> model_validate(Get(get_type_hints(edge_cls), "properties"),
                                   (CHOOSE r \in graph_rels : r.id = row[1]).props)]

\* Lines 284-285 succeed for one row.
RowValidates(graph_nodes, graph_rels, edge_cls, row) ==
    /\ CanValidate(Get(get_type_hints(edge_cls), "node"),
                   NodeById(graph_nodes, row[2]).props)
    /\ CanValidate(Get(get_type_hints(edge_cls), "properties"),
                   (CHOOSE r \in graph_rels : r.id = row[1]).props)

SetAttr_Extends(prior, results) == prior \o results

\* Line 241: setattr(model, rel_property, results).
SetAttr(prior, results) == results

AssignsField_BeforeHydration(refresh, outcome, valid) == refresh /\ outcome = "ok"

\* Line 241 is reached when the call is a refresh_relationship and lines
\* 234-240 returned: the statement did not raise and every row hydrated.
AssignsField(refresh, outcome, valid) == refresh /\ outcome = "ok" /\ valid

\* Lines 281-287, and line 241 for refresh_relationship: the statement
\* returns its rows or raises; every row is hydrated before anything is
\* returned or assigned.
EdgesReturn(c, outcome) ==
    LET stmt == LastStmt(c)
        rows == SortRows(RetrieveRows(nodes, rels, stmt))
        valid == \A i \in 1 .. Len(rows) :
                    RowValidates(nodes, rels, calls[c].edge_cls, rows[i])
        results == [i \in 1 .. Len(rows) |->
                       HydrateRow(nodes, rels, calls[c].edge_cls, rows[i])]
        refresh == calls[c].op = "refresh_relationship"
    IN  /\ calls[c].pc = "edges"
        /\ calls' = [calls EXCEPT ![c] =
              CASE outcome = "ok" /\ valid ->
                     [@ EXCEPT !.pc = "done", !.rows = rows,
                               !.returned = IF refresh THEN << >> ELSE results]
                [] outcome = "ok" /\ ~valid ->
                     [@ EXCEPT !.pc = "done", !.rows = rows,
                               !.raised = Error("ValidationError", "model_validate")]
                [] OTHER ->
                     [@ EXCEPT !.pc = "done", !.failed = "retrieve",
                               !.raised = Propagate("retrieve")]]
        /\ attrs' = IF AssignsField(refresh, outcome, valid)
                    THEN [attrs EXCEPT ![<<calls[c].model, calls[c].rel_property>>] =
                             SetAttr(@, results)]
                    ELSE attrs
        /\ UNCHANGED <<_known_constraints, nodes, rels, next_id, started, stats>>

(***************************************************************************)
(* unwrap_node_as and unwrap_result_as_node.  A node is passed by its id,   *)
(* None as 0; a result is its rows, a row its columns.                     *)
(***************************************************************************)
Outcome(raised, returned) == [raised |-> raised, returned |-> returned]

\* Lines 74-76.
unwrap_node_as(model_cls, graph_nodes, node) ==
    IF node = 0
    THEN Outcome(Error("InvalidValueError", "No record to unwrap"), << >>)
    ELSE IF ~CanValidate(model_cls, NodeById(graph_nodes, node).props)
    THEN Outcome(Error("ValidationError", "model_validate"), << >>)
    ELSE Outcome(NoError,
                 <<model_validate(model_cls, NodeById(graph_nodes, node).props)>>)

unwrap_result_as_node_FirstColumn(model_cls, graph_nodes, result) ==
    IF result = << >> \/ Len(result[1]) = 0
    THEN Outcome(Error("InvalidValueError", "Record is empty"), << >>)
    ELSE unwrap_node_as(model_cls, graph_nodes, result[1][1])

\* Lines 83-87, for the record result.single() gave: the first row, None
\* (here << >> for the whole result) without rows.
unwrap_result_as_node(model_cls, graph_nodes, result) ==
    IF result = << >> \/ Len(result[1]) = 0
    THEN Outcome(Error("InvalidValueError", "Record is empty"), << >>)
    ELSE IF Len(result[1]) # 1
    THEN Outcome(Error("InvalidValueError", "Too many nodes in record"), << >>)
    ELSE unwrap_node_as(model_cls, graph_nodes, result[1][1])

\* unwrap_node_as is a plain function: it is over when it is called.
UnwrapNodeCall(c, model_cls, node) ==
    LET out == unwrap_node_as(model_cls, nodes, node)
    IN  /\ CanStart(c)
        /\ started' = started + 1
        /\ calls' = [calls EXCEPT ![c] =
              [NoCall EXCEPT !.op = "unwrap_node_as", !.pc = "done",
                             !.cls = model_cls, !.node = node,
                             !.known_at_start = _known_constraints,
                             !.raised = out.raised, !.returned = out.returned]]
        /\ UNCHANGED <<_known_constraints, nodes, rels, next_id, attrs, stats>>

\* Line 82: unwrap_result_as_node awaits result.single().
UnwrapResultCall(c, model_cls, result) ==
    /\ CanStart(c)
    /\ started' = started + 1
    /\ calls' = [calls EXCEPT ![c] =
          [NoCall EXCEPT !.op = "unwrap_result_as_node", !.pc = "single",
                         !.cls = model_cls, !.result = result,
                         !.known_at_start = _known_constraints]]
    /\ UNCHANGED <<_known_constraints, nodes, rels, next_id, attrs, stats>>

\* Lines 82-87: result.single() returns or raises.
SingleReturn(c, outcome) ==
    LET out == unwrap_result_as_node(calls[c].cls, nodes, calls[c].result)
    IN  /\ calls[c].pc = "single"
        /\ calls' = [calls EXCEPT ![c] =
              IF outcome = "ok"
              THEN [@ EXCEPT !.pc = "done", !.raised = out.raised,
                             !.returned = out.returned]
              ELSE [@ EXCEPT !.pc = "done", !.raised = Propagate("single")]]
        /\ UNCHANGED <<_known_constraints, nodes, rels, next_id, attrs, started,
                       stats>>

\* The coroutine ends: its caller has the value returned or the exception
\* raised, and the slot is free again.
Return(c) ==
    /\ calls[c].pc = "done"
    /\ calls' = [calls EXCEPT ![c] = NoCall]
    /\ UNCHANGED <<_known_constraints, nodes, rels, next_id, attrs, started, stats>>

(***************************************************************************)
(* The inputs the calls are made with.                                     *)
(***************************************************************************)
Directions == {"INCOMING", "OUTGOING", "UNDIRECTED"}

\* <<from_node, to_node, rel_props, rel_type>>
RelationshipInputs ==
    {<<"alice", "note", "None", "KNOWS">>, <<"note", "note", "None", "None">>}

GraphRelationshipInputs ==
    {<<p[1], p[2], rel_props, rel_type>> :
        p \in {<<"alice", "bob">>, <<"bob", "alice">>, <<"note", "note">>},
        rel_props \in {"None", "friendship", "employment"},
        rel_type \in {"None", "KNOWS"}}

\* <<model, rel_name, direction, edge_cls>>
RetrieveInputs == {<<"alice", "KNOWS", "OUTGOING", "PersonEdge">>}

GraphRetrieveInputs ==
    {<<"alice", "KNOWS", d, "PersonEdge">> : d \in Directions}
    \cup {<<"note", "KNOWS", d, "CommentEdge">> : d \in Directions}
    \cup {<<"alice", "KNOWS", "OUTGOING", e>> :
            e \in {"HalfEdge", "StrEdge", "RawEdge", "NoInitEdge", "object"}}

\* <<model, rel_property>>
RefreshInputs == {<<"alice", "friends">>, <<"alice", "name">>}

GraphRefreshInputs ==
    {<<"alice", f>> : f \in FieldNames("Person") \cup {"missing"}}
    \cup {<<"doc", f>> : f \in FieldNames("Doc") \cup {"missing"}}

(***************************************************************************)
(* The steps of the calls in flight.                                       *)
(***************************************************************************)
Returns ==
    \/ \E c \in Calls, outcome \in {"ok", "raise"} : ConstraintReturn(c, outcome)
    \/ \E c \in Calls, outcome \in {"row", "empty", "raise", "readfail"} :
          CreateReturn(c, outcome)
    \/ \E c \in Calls, outcome \in {"ok", "raise", "readfail"} :
          RelationshipReturn(c, outcome)
    \/ \E c \in Calls, outcome \in {"ok", "raise"} : EdgesReturn(c, outcome)
    \/ \E c \in Calls : Return(c)

\* A process that makes its calls one after another on an empty graph.
Next ==
    \/ \E c \in Calls, session \in Sessions, model \in Instances :
          Serial(MaxCalls) /\ CreateNodeCall(c, session, model)
    \/ \E c \in Calls, i \in RelationshipInputs :
          Serial(MaxCalls) /\ CreateRelationshipCall(c, i[1], i[2], i[3], i[4])
    \/ \E c \in Calls, i \in RetrieveInputs :
          Serial(MaxCalls) /\ RetrieveCall(c, i[1], i[2], i[3], i[4])
    \/ \E c \in Calls, i \in RefreshInputs :
          Serial(MaxCalls) /\ RefreshCall(c, i[1], i[2])
    \/ Returns

Spec == Init /\ [][Next]_vars

\* A process that makes its calls one after another on a graph that earlier
\* processes filled.
GraphNext ==
    \/ \E c \in Calls, session \in Sessions, model \in Instances :
          Serial(MaxGraphCalls) /\ CreateNodeCall(c, session, model)
    \/ \E c \in Calls, i \in GraphRelationshipInputs :
          Serial(MaxGraphCalls) /\ CreateRelationshipCall(c, i[1], i[2], i[3], i[4])
    \/ \E c \in Calls, i \in GraphRetrieveInputs :
          Serial(MaxGraphCalls) /\ RetrieveCall(c, i[1], i[2], i[3], i[4])
    \/ \E c \in Calls, i \in GraphRefreshInputs :
          Serial(MaxGraphCalls) /\ RefreshCall(c, i[1], i[2])
    \/ Returns

GraphSpec == GraphInit /\ [][GraphNext]_vars

\* A process whose create_node calls run concurrently on an empty graph.
ConcNext ==
    \/ \E c \in Calls, session \in Sessions, model \in Instances :
          started < MaxConcCalls /\ CreateNodeCall(c, session, model)
    \/ \E c \in Calls, outcome \in {"ok", "raise"} : ConstraintReturn(c, outcome)
    \/ \E c \in Calls, outcome \in {"row", "empty", "raise", "readfail"} :
          CreateReturn(c, outcome)
    \/ \E c \in Calls : Return(c)

ConcSpec == Init /\ [][ConcNext]_vars

\* The instances whose classes have no relationship field, and the classes
\* nodes are unwrapped as.
ScalarInstances == {"note", "memo", "ghost"}

UnwrapClasses == {"Comment", "Memo", "Ghost"}

\* The results handed to unwrap_result_as_node: no row, a row without
\* columns, one column (a node or None), two columns, two rows.
Results(graph_nodes) ==
    LET ids == {n.id : n \in graph_nodes}
    IN  {<< >>, << << >> >>}
        \cup {<< <<n>> >> : n \in ids \cup {0}}
        \cup {<< <<n, m>> >> : n \in ids, m \in ids}
        \cup {<< <<n>>, <<m>> >> : n \in ids, m \in ids}

\* A process that creates nodes and unwraps what it fetches back.
UnwrapNext ==
    \/ \E c \in Calls, session \in Sessions, model \in ScalarInstances :
          Serial(MaxUnwrapCalls) /\ CreateNodeCall(c, session, model)
    \/ \E c \in Calls, cls \in UnwrapClasses, n \in {m.id : m \in nodes} \cup {0} :
          Serial(MaxUnwrapCalls) /\ UnwrapNodeCall(c, cls, n)
    \/ \E c \in Calls, cls \in UnwrapClasses, result \in Results(nodes) :
          Serial(MaxUnwrapCalls) /\ UnwrapResultCall(c, cls, result)
    \/ \E c \in Calls, outcome \in {"ok", "raise"} : ConstraintReturn(c, outcome)
    \/ \E c \in Calls, outcome \in {"row", "empty", "raise", "readfail"} :
          CreateReturn(c, outcome)
    \/ \E c \in Calls, outcome \in {"ok", "raise"} : SingleReturn(c, outcome)
    \/ \E c \in Calls : Return(c)

UnwrapSpec == Init /\ [][UnwrapNext]_vars

(***************************************************************************)
(* Properties.                                                             *)
(***************************************************************************)
HasKind(c, kind) == \E i \in 1 .. Len(calls[c].stmts) : calls[c].stmts[i].kind = kind

CreateNodeCalls == {c \in Calls : calls[c].op = "create_node"}

\* No create_node call of the class is in flight.
Settled(cls) ==
    \A c \in CreateNodeCalls : type(calls[c].model) = cls => calls[c].pc = "done"

\* Across the create_node calls made so far for cls, all of them on a plain
\* session and none with a failed statement: one constraint statement, issued
\* by the first call, and one creation statement per call.
OneConstraintFor(cls) ==
    (stats[cls].calls >= 1 /\ stats[cls].clean) =>
        /\ stats[cls].constraints = 1
        /\ Settled(cls) => stats[cls].creates = stats[cls].calls
        /\ \A c \in CreateNodeCalls :
              (type(calls[c].model) = cls /\ HasKind(c, "constraint")) =>
                  calls[c].nth = 1

C2_NoUniqueFieldsOneStatement ==
    \A c \in CreateNodeCalls :
        UniqueConstraints(type(calls[c].model)) = << >> =>
            /\ Len(calls[c].stmts) = 1
            /\ calls[c].stmts[1].kind = "create_node"
            /\ ~HasKind(c, "constraint")

C2_Witness ==
    \E c \in CreateNodeCalls :
        /\ calls[c].model = "note"
        /\ calls[c].session = "session"
        /\ calls[c].pc = "done"
        /\ calls[c].raised = NoError
        /\ Len(calls[c].stmts) = 1

\* C3: when the constraint statement fails, the class is not added to the
\* cache, and the next create_node call for the class on a plain session
\* issues the constraint statement again.
C3_FailedConstraintIsRetried ==
    \A c \in CreateNodeCalls :
        /\ (calls[c].pc = "done" /\ calls[c].raised = Error("SessionError", "constraint")) =>
              /\ type(calls[c].model) \notin _known_constraints
              /\ _known_constraints = calls[c].known_at_start
        /\ calls[c].after_failure =>
              /\ type(calls[c].model) \notin calls[c].known_at_start
              /\ calls[c].stmts[1].kind = "constraint"

C3_Witness ==
    \E c \in CreateNodeCalls :
        /\ calls[c].after_failure
        /\ calls[c].pc = "done"
        /\ calls[c].raised = NoError
        /\ Len(calls[c].stmts) = 2
        /\ type(calls[c].model) \in _known_constraints

\* C4: on an explicit transaction, or with an empty label list, create_node
\* issues no constraint statement and leaves the cache as it was; so a class
\* with unique fields (and labels) whose calls so far all ran in transactions
\* is not cached, and its next call on a plain session issues the constraint
\* statement.
C4_TransactionOrNoLabelsIsNoOp ==
    \A c \in CreateNodeCalls :
        /\ (calls[c].session = "tx" \/ NodeLabels(calls[c].model) = << >>) =>
              /\ ~HasKind(c, "constraint")
              /\ _known_constraints = calls[c].known_at_start
        /\ (/\ calls[c].after_tx_only
            /\ UniqueConstraints(type(calls[c].model)) # << >>
            /\ NodeLabels(calls[c].model) # << >>) =>
              /\ type(calls[c].model) \notin calls[c].known_at_start
              /\ calls[c].stmts[1].kind = "constraint"

C4_Witness ==
    \E c \in CreateNodeCalls :
        /\ calls[c].after_tx_only
        /\ calls[c].model = "alice"
        /\ calls[c].pc = "done"
        /\ calls[c].raised = NoError
        /\ Len(calls[c].stmts) = 2

\* C5: when create_node calls for one class overlap, every call issues at most
\* one constraint statement; a call issues it only if the class was not yet
\* recorded when the call tested the cache, so two calls issue it only when
\* both tested before either recorded, and a call started after the recording
\* issues none; and a call's creation statement comes after its own
\* constraint statement has returned.
C5_OverlappingCallsRaceBenignly ==
    \A c \in CreateNodeCalls :
        /\ Cardinality({i \in 1 .. Len(calls[c].stmts) :
                           calls[c].stmts[i].kind = "constraint"}) <= 1
        /\ HasKind(c, "constraint") =>
              /\ type(calls[c].model) \notin calls[c].known_at_start
              /\ calls[c].stmts[1].kind = "constraint"
        /\ calls[c].pc = "constraint" => ~HasKind(c, "create_node")
        /\ HasKind(c, "create_node") =>
              /\ LastStmt(c).kind = "create_node"
              /\ Cardinality({i \in 1 .. Len(calls[c].stmts) :
                                 calls[c].stmts[i].kind = "create_node"}) = 1
        /\ (calls[c].pc = "create"
            \/ (calls[c].pc = "done"
                /\ calls[c].raised # Error("SessionError", "constraint"))) =>
              HasKind(c, "create_node")

C5_Witness ==
    \E c, d \in CreateNodeCalls :
        /\ c # d
        /\ type(calls[c].model) = type(calls[d].model)
        /\ HasKind(c, "constraint") /\ HasKind(d, "constraint")
        /\ calls[c].pc = "done" /\ calls[c].raised = NoError
        /\ calls[d].pc = "done" /\ calls[d].raised = NoError
        /\ type(calls[c].model) \in _known_constraints

RelationshipCalls == {c \in Calls : calls[c].op = "create_relationship"}

\* C6: create_relationship with neither a relationship type name nor a
\* properties instance raises 'Either rel_cls or rel_type must be provided'
\* without running a statement.
C6_NeitherNameNorPropertiesRaises ==
    \A c \in RelationshipCalls :
        (calls[c].rel_type = "None" /\ calls[c].rel_props = "None") =>
            /\ calls[c].pc = "done"
            /\ calls[c].raised = Error("CypheranticError",
                                       "Either rel_cls or rel_type must be provided")
            /\ calls[c].stmts = << >>
            /\ calls[c].returned = << >>

C6_Witness ==
    \E c \in RelationshipCalls :
        /\ calls[c].rel_type = "None" /\ calls[c].rel_props = "None"
        /\ calls[c].model = "alice" /\ calls[c].to_node = "bob"
        /\ calls[c].raised.kind = "CypheranticError"

ValidationKinds == {"InvalidValueError", "InvalidRelationshipError", "TypeError"}

\* C7: a call that raised a validation error (refresh_relationship's field
\* checks, the edge-type validation of retrieve_relationship_edges, the
\* neither-argument case of create_relationship) has run no statement.
C7_ValidationBeforeAnyStatement ==
    \A c \in Calls :
        (\/ calls[c].raised.kind \in ValidationKinds
         \/ calls[c].raised = Error("CypheranticError",
                                    "Either rel_cls or rel_type must be provided")) =>
            /\ calls[c].stmts = << >>
            /\ calls[c].pc = "done"

C7_Witness ==
    \E c \in Calls :
        /\ calls[c].op = "retrieve_relationship_edges"
        /\ calls[c].raised.kind = "TypeError"
        /\ calls[c].stmts = << >>

\* The stored nodes an instance's labels and key values select.
NodesOf(inst) ==
    {n \in nodes :
        /\ Range(_extract_labels(type(inst))) \subseteq n.labels
        /\ \A f \in Range(_extract_key_fields(type(inst))) :
              <<f, getattr(inst, f)>> \in n.props}

HasKeys(inst) == _extract_key_fields(type(inst)) # << >>

\* C8: when both endpoint classes have key fields and each instance's key
\* values select exactly one stored node, a create_relationship call whose
\* statement returns creates exactly one relationship, of the resolved type,
\* from the source's node to the target's node, and returns it.
C8_OneRelationshipBetweenMatchedNodes ==
    [][\A c \in Calls :
          (/\ calls[c].pc = "relationship"
           /\ calls'[c].pc = "done"
           /\ calls'[c].raised.kind # "SessionError"
           /\ HasKeys(calls[c].model) /\ HasKeys(calls[c].to_node)
           /\ Cardinality(NodesOf(calls[c].model)) = 1
           /\ Cardinality(NodesOf(calls[c].to_node)) = 1) =>
              /\ calls'[c].raised = NoError
              /\ \E r \in rels' \ rels :
                    /\ rels' = rels \cup {r}
                    /\ r.type = calls[c].stmts[1].params.rel_name
                    /\ r.start \in {n.id : n \in NodesOf(calls[c].model)}
                    /\ r.end \in {n.id : n \in NodesOf(calls[c].to_node)}
                    /\ calls'[c].returned = <<r.id>>]_vars

C8_Witness ==
    \E c \in RelationshipCalls :
        /\ calls[c].model = "alice" /\ calls[c].to_node = "bob"
        /\ calls[c].pc = "done" /\ calls[c].raised = NoError
        /\ Cardinality(NodesOf("alice")) = 1 /\ Cardinality(NodesOf("bob")) = 1
        /\ \E r \in rels : calls[c].returned = <<r.id>> /\ r.start # r.end

\* C9: the relationship name bound is the explicit rel_type when one is
\* given, else the properties class's configured rel_type, else the
\* properties class's name; the properties bound are the dump of the
\* properties instance, or an empty map without one.
C9_NameAndPropertiesResolution ==
    \A c \in RelationshipCalls :
        calls[c].stmts # << >> =>
            LET params == calls[c].stmts[1].params
                config == cypherantic_config(type(calls[c].rel_props))
            IN  /\ calls[c].rel_type # "None" => params.rel_name = calls[c].rel_type
                /\ (calls[c].rel_type = "None" /\ Has(config, "rel_type")) =>
                      params.rel_name = Get(config, "rel_type")
                /\ (calls[c].rel_type = "None" /\ ~Has(config, "rel_type")) =>
                      params.rel_name = type(calls[c].rel_props)
                /\ calls[c].rel_props # "None" =>
                      params.rel_props = model_dump(calls[c].rel_props)
                /\ calls[c].rel_props = "None" => params.rel_props = {}

C9_Witness ==
    \E c \in RelationshipCalls :
        /\ calls[c].rel_type = "KNOWS" /\ calls[c].rel_props = "employment"
        /\ calls[c].stmts # << >>
        /\ calls[c].stmts[1].params.rel_name = "KNOWS"
        /\ calls[c].stmts[1].params.rel_props = {<<"role", "Engineer">>}

RetrieveCalls ==
    {c \in Calls : /\ calls[c].op = "retrieve_relationship_edges"
                   /\ calls[c].pc = "done"
                   /\ calls[c].raised = NoError}

\* The relationships of the call's type that leave, or enter, a node the
\* source instance selects.
Leaving(c) ==
    {r \in rels : /\ r.type = calls[c].rel_type
                  /\ r.start \in {n.id : n \in NodesOf(calls[c].model)}}

Entering(c) ==
    {r \in rels : /\ r.type = calls[c].rel_type
                  /\ r.end \in {n.id : n \in NodesOf(calls[c].model)}}

\* The rows <<r, b>> the claim expects, and the relationships they stand for.
ExpectedRows(c) ==
    CASE calls[c].direction = "OUTGOING" -> {<<r.id, r.end>> : r \in Leaving(c)}
      [] calls[c].direction = "INCOMING" -> {<<r.id, r.start>> : r \in Entering(c)}
      [] OTHER -> {<<r.id, r.end>> : r \in Leaving(c)}
                  \cup {<<r.id, r.start>> : r \in Entering(c)}

ExpectedRels(c) ==
    CASE calls[c].direction = "OUTGOING" -> Leaving(c)
      [] calls[c].direction = "INCOMING" -> Entering(c)
      [] OTHER -> Leaving(c) \cup Entering(c)

\* Every returned edge is built from its row: the node is the other endpoint.
EdgesFollowRows(c) ==
    /\ Len(calls[c].returned) = Len(calls[c].rows)
    /\ \A i \in 1 .. Len(calls[c].rows) :
          /\ calls[c].returned[i].node.values
                \subseteq NodeById(nodes, calls[c].rows[i][2]).props
          /\ \A f \in Range(_extract_key_fields(calls[c].returned[i].node.cls)) :
                Has(calls[c].returned[i].node.values, f)

\* C10 as stated: a retrieval that returns gives one edge per relationship
\* of type T leaving A (OUTGOING), entering A (INCOMING), or either
\* (UNDIRECTED), each relationship counted exactly once, none of another
\* type, with the other endpoint as the edge's node.
C10_OneEdgePerRelationship ==
    \A c \in RetrieveCalls :
        /\ Range(calls[c].rows) = ExpectedRows(c)
        /\ Len(calls[c].rows) = Cardinality(ExpectedRels(c))
        /\ EdgesFollowRows(c)

\* C10, amended: the rows are those of the direction's pattern, none twice
\* and none of another type, with the other endpoint as the edge's node; and
\* each relationship is counted exactly once when A selects a single node.
C10_OneEdgePerRelationshipOfOneNode ==
    \A c \in RetrieveCalls :
        /\ Range(calls[c].rows) = ExpectedRows(c)
        /\ Len(calls[c].rows) = Cardinality(ExpectedRows(c))
        /\ Cardinality(NodesOf(calls[c].model)) = 1 =>
              Len(calls[c].rows) = Cardinality(ExpectedRels(c))
        /\ EdgesFollowRows(c)

C10_Witness ==
    \E c \in RetrieveCalls :
        /\ calls[c].model = "alice"
        /\ calls[c].direction = "UNDIRECTED"
        /\ Cardinality(NodesOf("alice")) = 1
        /\ Len(calls[c].rows) = 2
        /\ Cardinality(Leaving(c)) = 1 /\ Cardinality(Entering(c)) = 1

\* The edges a retrieval for the field's declared relationship name,
\* direction and element type yields for inst on the stored graph.
DeclaredRows(inst, fld) ==
    LET from == {n.id : n \in NodesOf(inst)}
        typed == {r \in rels : r.type = fld.rels[1].rel_type}
    IN  IF fld.rels[1].direction = "INCOMING"
        THEN {<<r.id, r.start>> : r \in {x \in typed : x.end \in from}}
        ELSE IF fld.rels[1].direction = "OUTGOING"
        THEN {<<r.id, r.end>> : r \in {x \in typed : x.start \in from}}
        ELSE {<<r.id, r.end>> : r \in {x \in typed : x.start \in from}}
             \cup {<<r.id, r.start>> : r \in {x \in typed : x.end \in from}}

DeclaredEdge(fld, row) ==
    [node |-> [cls |-> Get(get_type_hints(fld.arg), "node"),
               values |-> {p \in NodeById(nodes, row[2]).props :
                             p[1] \in FieldNames(Get(get_type_hints(fld.arg), "node"))}],
     properties |-> [cls |-> Get(get_type_hints(fld.arg), "properties"),
                     values |-> {p \in (CHOOSE r \in rels : r.id = row[1]).props :
                                   p[1] \in FieldNames(Get(get_type_hints(fld.arg),
                                                           "properties"))}]]

\* C11: the step in which refresh_relationship succeeds assigns to the field
\* exactly the edges retrieval yields for the field's declared relationship
\* name, direction and element type (as many, the same ones, none when
\* nothing matches), keeps nothing of the field's prior value, and assigns
\* to no other field.
C11_RefreshReplacesField ==
    [][\A c \in Calls :
          (/\ calls[c].op = "refresh_relationship"
           /\ calls[c].pc = "edges"
           /\ calls'[c].pc = "done"
           /\ calls'[c].raised = NoError) =>
              LET key == <<calls[c].model, calls[c].rel_property>>
                  fld == FieldInfo(type(calls[c].model), calls[c].rel_property)
                  expected == DeclaredRows(calls[c].model, fld)
              IN  /\ Len(attrs'[key]) = Cardinality(expected)
                  /\ Range(attrs'[key]) = {DeclaredEdge(fld, row) : row \in expected}
                  /\ \A other \in RelationFields \ {key} :
                        attrs'[other] = attrs[other]]_vars

C11_Witness ==
    \E c \in Calls :
        /\ calls[c].op = "refresh_relationship"
        /\ calls[c].pc = "done" /\ calls[c].raised = NoError
        /\ calls[c].prior = <<StaleEdge>>
        /\ Len(attrs[<<calls[c].model, calls[c].rel_property>>]) = 1
        /\ StaleEdge \notin Range(attrs[<<calls[c].model, calls[c].rel_property>>])

RefreshCalls == {c \in Calls : calls[c].op = "refresh_relationship"}

\* The messages of a RelationshipError that names the field.
NamingMessages(field) ==
    {"Missing or incorrect generic type for " \o field,
     "Relation " \o field \o " is not a sequence",
     "Missing or incorrect Relationship for " \o field}

\* C12: refresh_relationship raises InvalidValueError 'Relation <field> does
\* not exist' for a field the model does not declare; for a declared field
\* whose type is not a parametrized generic, or not a sequence, or that does
\* not carry exactly one Relationship, it raises an InvalidRelationshipError
\* whose message names the field.
C12_RefreshFieldErrors ==
    \A c \in RefreshCalls :
        LET cls == type(calls[c].model)
            field == calls[c].rel_property
        IN  /\ field \notin FieldNames(cls) =>
                  calls[c].raised = Error("InvalidValueError",
                                          "Relation " \o field \o " does not exist")
            /\ (/\ field \in FieldNames(cls)
                /\ \/ FieldInfo(cls, field).origin \notin {"list", "tuple"}
                   \/ Len(FieldInfo(cls, field).rels) # 1) =>
                  /\ calls[c].raised.kind = "InvalidRelationshipError"
                  /\ calls[c].raised.msg \in NamingMessages(field)

\* C13: when a statement's session.run, or the reading of its result, fails
\* in any of the four operations, the call ends raising the session's own
\* error, and the failed statement is the last the call issued: a failed
\* constraint statement is not followed by the node-creation statement, and
\* a failed retrieval assigns nothing.
C13_SessionErrorsPropagate ==
    \A c \in Calls :
        calls[c].failed # "" =>
            /\ calls[c].pc = "done"
            /\ calls[c].raised = Error("SessionError", calls[c].failed)
            /\ calls[c].returned = << >>
            /\ LastStmt(c).kind = calls[c].failed
            /\ Cardinality({i \in 1 .. Len(calls[c].stmts) :
                               calls[c].stmts[i].kind = calls[c].failed}) = 1
            /\ calls[c].failed = "constraint" => ~HasKind(c, "create_node")
            /\ calls[c].op = "refresh_relationship" =>
                  attrs[<<calls[c].model, calls[c].rel_property>>] = calls[c].prior

C13_Witness ==
    \E c \in CreateNodeCalls :
        /\ calls[c].failed = "constraint"
        /\ calls[c].stmts # << >>
        /\ calls[c].raised.kind = "SessionError"

\* The create_node calls whose creation statement ran and gave no row.
RowlessCreateNodeCalls ==
    {c \in CreateNodeCalls : /\ calls[c].pc = "done"
                             /\ calls[c].failed = ""
                             /\ calls[c].returned = << >>}

\* C14 as stated: create_node raises a ValueError-kind error when the session
\* returns no row for the node-creation statement.
C14_NoRowIsValueError ==
    \A c \in RowlessCreateNodeCalls : calls[c].raised.kind \in ValueErrorKinds

\* C14, amended: create_node raises CypheranticError('Failed to create
\* node'), which is not a ValueError-kind error, when the session returns no
\* row for the node-creation statement.
C14_NoRowIsCypheranticError ==
    \A c \in RowlessCreateNodeCalls :
        /\ calls[c].raised = Error("CypheranticError", "Failed to create node")
        /\ calls[c].raised.kind \notin ValueErrorKinds
        /\ LastStmt(c).kind = "create_node"

C14_Witness ==
    \E c \in RowlessCreateNodeCalls :
        /\ calls[c].model = "alice"
        /\ calls[c].raised.kind = "CypheranticError"
        /\ Len(calls[c].stmts) = 2

\* The unwrap_node_as calls made on a node that create_node stored from an
\* instance of the class asked for, a class without relationship fields.
RoundTrips ==
    {c \in Calls :
        /\ calls[c].op = "unwrap_node_as"
        /\ calls[c].node # 0
        /\ NodeById(nodes, calls[c].node).of # ""
        /\ type(NodeById(nodes, calls[c].node).of) = calls[c].cls
        /\ \A i \in 1 .. Len(model_fields(calls[c].cls)) :
              model_fields(calls[c].cls)[i].rels = << >>}

\* The instance as a value: its class and its fields' values.
Original(inst) == [cls |-> type(inst), values |-> model_dump(inst)]

RelationshipFieldNames(cls) ==
    {model_fields(cls)[i].name : i \in {j \in 1 .. Len(model_fields(cls)) :
                                          Len(model_fields(cls)[j].rels) >= 1}}

\* C16: the properties create_node binds are exactly the fields without a
\* Relationship annotation, each with its dumped value: a field annotated
\* once or several times, optional or list, is left out, and every other
\* field is there.
C16_PropertiesExcludeRelationshipFields ==
    \A c \in CreateNodeCalls :
        \A i \in 1 .. Len(calls[c].stmts) :
            calls[c].stmts[i].kind = "create_node" =>
                LET properties == calls[c].stmts[i].params.properties
                    cls == type(calls[c].model)
                IN  /\ \A name \in FieldNames(cls) \ RelationshipFieldNames(cls) :
                          <<name, getattr(calls[c].model, name)>> \in properties
                    /\ \A p \in properties :
                          /\ p[1] \in FieldNames(cls) \ RelationshipFieldNames(cls)
                          /\ p[2] = getattr(calls[c].model, p[1])

C16_Witness ==
    \E c \in CreateNodeCalls :
        /\ calls[c].model = "doc"
        /\ HasKind(c, "create_node")
        /\ {p[1] : p \in LastStmt(c).params.properties}
              = {"doc_id", "title", "version", "tags", "kind"}
        /\ RelationshipFieldNames("Doc") = {"owner", "both", "loose", "readers"}

\* Relationship names a caller may pass, one of them shaped like query text.
OtherRelNames == {"KNOWS", "FOLLOWS", "X]->(b) DETACH DELETE a //"}

\* C17: the relationship name travels as the bound parameter rel_name and
\* is no part of the query text: the statement a create_relationship or a
\* retrieve_relationship_edges call (in any direction) issues, and the one
\* the same call issues with another relationship name, have the same text
\* and the same parameters but for rel_name, which is the name passed.
C17_RelationshipNameIsBound ==
    \A c \in Calls :
        /\ (calls[c].op = "create_relationship" /\ calls[c].stmts # << >>) =>
              \A name \in OtherRelNames :
                  LET mine == calls[c].stmts[1]
                      other == CreateRelationshipStmt(calls[c].model, calls[c].to_node,
                                                      calls[c].rel_props, name)
                  IN  /\ other.query = mine.query
                      /\ other.params.rel_name = name
                      /\ calls[c].rel_type # "None" =>
                            mine.params.rel_name = calls[c].rel_type
                      /\ [other.params EXCEPT !.rel_name = mine.params.rel_name]
                            = mine.params
        /\ (calls[c].op = "retrieve_relationship_edges" /\ calls[c].stmts # << >>) =>
              \A name \in OtherRelNames :
                  LET mine == calls[c].stmts[1]
                      other == RetrieveStmt(calls[c].model, name, calls[c].direction)
                  IN  /\ other.query = mine.query
                      /\ other.params.rel_name = name
                      /\ mine.params.rel_name = calls[c].rel_type
                      /\ [other.params EXCEPT !.rel_name = mine.params.rel_name]
                            = mine.params

C17_Witness ==
    \E c \in Calls :
        /\ calls[c].op = "create_relationship"
        /\ calls[c].model = "alice" /\ calls[c].to_node = "bob"
        /\ calls[c].rel_type = "KNOWS"
        /\ calls[c].stmts # << >>
        /\ calls[c].stmts[1].params.rel_name = "KNOWS"
        /\ calls[c].stmts[1].query =
              "MATCH (a:Person {name:$from_node_props.name}) WITH a "
              \o "MATCH (b:Person {name:$to_node_props.name}) "
              \o "CREATE (a)-[r:$($rel_name) $rel_props]->(b) RETURN r"

\* The names of the fields of cls that carry Field(unique=True), as declared.
RECURSIVE KeyFieldsOf(_)
KeyFieldsOf(fields) ==
    IF fields = << >> THEN << >>
    ELSE (IF fields[1].unique > 0 THEN <<fields[1].name>> ELSE << >>)
         \o KeyFieldsOf(Tail(fields))

\* "{f1<colon>$alias.f1<sep>f2<colon>$alias.f2...}", "" for no key field.
RECURSIVE FragmentBody(_, _, _, _)
FragmentBody(keys, alias, colon, sep) ==
    IF keys = << >> THEN ""
    ELSE keys[1] \o colon \o "$" \o alias \o "." \o keys[1]
         \o (IF Len(keys) > 1 THEN sep ELSE "")
         \o FragmentBody(Tail(keys), alias, colon, sep)

Fragment(keys, alias, colon, sep) ==
    IF keys = << >> THEN "" ELSE "{" \o FragmentBody(keys, alias, colon, sep) \o "}"

\* The classes a call that issued a matching statement built a match
\* fragment for, each with the parameter alias used.
Matched(c) ==
    IF calls[c].stmts = << >> THEN {}
    ELSE IF calls[c].op = "create_relationship"
    THEN {<<type(calls[c].model), "from_node_props">>,
          <<type(calls[c].to_node), "to_node_props">>}
    ELSE IF calls[c].op \in {"retrieve_relationship_edges", "refresh_relationship"}
    THEN {<<type(calls[c].model), "from_node_props">>}
    ELSE {}

\* C18 as stated: the match fragment of a statement is "" for a class
\* without key fields and otherwise "{f1: $alias.f1, f2: $alias.f2}", the
\* key fields in declaration order, a space after each colon and comma.
C18_MatchFragmentSpaced ==
    \A c \in Calls : \A m \in Matched(c) :
        _build_match_clause(m[1], m[2])
            = Fragment(KeyFieldsOf(model_fields(m[1])), m[2], ": ", ", ")

\* C18 amended: the match fragment of a statement is "" for a class without
\* key fields and otherwise "{f1:$alias.f1,f2:$alias.f2}", exactly the key
\* fields in declaration order, with no space after a colon or a comma.
C18_MatchFragment ==
    \A c \in Calls : \A m \in Matched(c) :
        _build_match_clause(m[1], m[2])
            = Fragment(KeyFieldsOf(model_fields(m[1])), m[2], ":", ",")

C18_Witness ==
    /\ \E c \in Calls :
          /\ <<"Doc", "from_node_props">> \in Matched(c)
          /\ _build_match_clause("Doc", "from_node_props")
                = "{doc_id:$from_node_props.doc_id,version:$from_node_props.version}"
    /\ _build_match_clause("Comment", "from_node_props") = ""
    /\ _build_match_clause("Person", "to_node_props") = "{name:$to_node_props.name}"

\* "n.f1, n.f2, ..." for the given field names.
RECURSIVE Required(_)
Required(keys) ==
    IF keys = << >> THEN ""
    ELSE "n." \o keys[1] \o (IF Len(keys) > 1 THEN ", " ELSE "")
         \o Required(Tail(keys))

\* C19: a constraint statement issued for an instance reads
\* CREATE CONSTRAINT <TypeName>_unique IF NOT EXISTS FOR (n:<first label>)
\* REQUIRE (n.f1, n.f2, ...) IS UNIQUE, where f1, f2, ... are the fields
\* of the type marked unique, all of them and no other, as declared, and
\* the label is the first one of the type's label list.
C19_ConstraintText ==
    \A c \in Calls : \A i \in 1 .. Len(calls[c].stmts) :
        calls[c].stmts[i].kind = "constraint" =>
            LET cls == type(calls[c].model)
                labels == IF Has(cypherantic_config(cls), "labels")
                          THEN Get(cypherantic_config(cls), "labels")
                          ELSE <<cls>>
            IN  /\ labels # << >>
                /\ KeyFieldsOf(model_fields(cls)) # << >>
                /\ calls[c].stmts[i].query =
                      "CREATE CONSTRAINT " \o cls \o "_unique IF NOT EXISTS FOR (n:"
                      \o labels[1] \o ") REQUIRE ("
                      \o Required(KeyFieldsOf(model_fields(cls))) \o ") IS UNIQUE"

C19_Witness ==
    \E c \in Calls :
        /\ calls[c].model = "doc"
        /\ calls[c].stmts # << >>
        /\ calls[c].stmts[1].kind = "constraint"
        /\ calls[c].stmts[1].query =
              "CREATE CONSTRAINT Doc_unique IF NOT EXISTS FOR (n:Paper) "
              \o "REQUIRE (n.doc_id, n.version) IS UNIQUE"

\* The calls of op that are over and whose session did not fail.
Unwrapped(op) ==
    {c \in Calls : /\ calls[c].op = op
                   /\ calls[c].pc = "done"
                   /\ calls[c].raised.kind # "SessionError"}

\* What hydrating the stored node id as cls gives: the instance built from
\* the node's properties, or pydantic's validation error.
Hydrated(c, cls, id) ==
    LET props == NodeById(nodes, id).props
    IN  IF \A i \in 1 .. Len(model_fields(cls)) :
               model_fields(cls)[i].required => Has(props, model_fields(cls)[i].name)
        THEN /\ calls[c].raised = NoError
             /\ calls[c].returned = <<model_validate(cls, props)>>
        ELSE /\ calls[c].raised.kind = "ValidationError"
             /\ calls[c].returned = << >>

FailsAsValueError(c) ==
    /\ calls[c].raised.kind \in ValueErrorKinds
    /\ calls[c].returned = << >>

\* C20: unwrap_result_as_node fails with a ValueError-kind error when the
\* result has no row, when its row has no column and when its row has more
\* than one column; with one column it does what unwrap_node_as does with
\* that column's node.  unwrap_node_as fails with a ValueError-kind error
\* for an absent node and hydrates any other.
C20_UnwrapErrors ==
    /\ \A c \in Unwrapped("unwrap_result_as_node") :
          LET result == calls[c].result
          IN  IF result = << >> THEN FailsAsValueError(c)
              ELSE IF Len(result[1]) = 0 THEN FailsAsValueError(c)
              ELSE IF Len(result[1]) > 1 THEN FailsAsValueError(c)
              ELSE IF result[1][1] = 0 THEN FailsAsValueError(c)
              ELSE Hydrated(c, calls[c].cls, result[1][1])
    /\ \A c \in Unwrapped("unwrap_node_as") :
          IF calls[c].node = 0 THEN FailsAsValueError(c)
          ELSE Hydrated(c, calls[c].cls, calls[c].node)

C20_Witness ==
    \E c \in Unwrapped("unwrap_result_as_node") :
        /\ Len(calls[c].result) = 1
        /\ Len(calls[c].result[1]) = 2
        /\ calls[c].raised = Error("InvalidValueError", "Too many nodes in record")

\* The classes without a unique field and with a non-empty label list.
Unconstrained == {cls \in ModelClasses :
                    /\ KeyFieldsOf(model_fields(cls)) = << >>
                    /\ (Has(cypherantic_config(cls), "labels") =>
                           Get(cypherantic_config(cls), "labels") # << >>)}

\* C21: once create_node was called on a plain session for a class without
\* unique fields (and with labels), the class is in the cache though no
\* constraint statement was ever issued for it, and every create_node call
\* for it made after such a call finds it cached at line 102 and issues
\* the creation statement only.
C21_UnconstrainedTypeIsCached ==
    \A cls \in Unconstrained :
        /\ (stats[cls].calls >= 1 /\ ~stats[cls].tx_only) =>
              /\ cls \in _known_constraints
              /\ stats[cls].constraints = 0
        /\ \A c \in CreateNodeCalls :
              (type(calls[c].model) = cls /\ calls[c].after_plain) =>
                  /\ cls \in calls[c].known_at_start
                  /\ \A i \in 1 .. Len(calls[c].stmts) :
                        calls[c].stmts[i].kind = "create_node"
                  /\ Len(calls[c].stmts) = 1

C21_Witness ==
    \E c \in CreateNodeCalls :
        /\ calls[c].model = "note"
        /\ calls[c].after_plain
        /\ calls[c].session = "session"
        /\ calls[c].nth = 2
        /\ "Comment" \in _known_constraints
        /\ stats["Comment"].constraints = 0

\* C22: the constraint cache only grows: no step of any operation, whether
\* it starts a call, returns from a statement that succeeded or failed, or
\* ends a call, takes a class out of it.
C22_CacheOnlyGrows ==
    [][_known_constraints \subseteq _known_constraints']_vars

\* A call that found classes cached has failed, and they are still cached.
C22_Witness ==
    \E c \in Calls :
        /\ calls[c].pc = "done"
        /\ calls[c].raised # NoError
        /\ calls[c].known_at_start # {}
        /\ calls[c].known_at_start \subseteq _known_constraints

\* The positions of the statements of kind kind among those call c issued.
Positions(c, kind) ==
    {i \in 1 .. Len(calls[c].stmts) : calls[c].stmts[i].kind = kind}

\* C23: a create_node call issues one or two statements and nothing else:
\* at most one constraint statement, which is then the first, and at most
\* one creation statement, which is the last; while the constraint
\* statement is outstanding no creation statement has been issued, so the
\* call never has two statements outstanding.
C23_ConstraintThenCreation ==
    \A c \in CreateNodeCalls :
        /\ Len(calls[c].stmts) \in {1, 2}
        /\ \A i \in 1 .. Len(calls[c].stmts) :
              calls[c].stmts[i].kind \in {"constraint", "create_node"}
        /\ Positions(c, "constraint") \subseteq {1}
        /\ Positions(c, "create_node") \subseteq {Len(calls[c].stmts)}
        /\ Cardinality(Positions(c, "create_node")) <= 1
        /\ calls[c].pc = "constraint" =>
              /\ Positions(c, "create_node") = {}
              /\ Len(calls[c].stmts) = 1
        /\ calls[c].pc = "create" => Positions(c, "create_node") # {}
        /\ Len(calls[c].stmts) = 2 =>
              /\ calls[c].stmts[1].kind = "constraint"
              /\ calls[c].failed # "constraint"

\* One call awaits its creation statement after its constraint statement
\* returned, while another still awaits its constraint statement.
C23_Witness ==
    \E c, d \in CreateNodeCalls :
        /\ calls[c].pc = "create"
        /\ Len(calls[c].stmts) = 2
        /\ calls[d].pc = "constraint"

\* The label lists a statement's patterns were written with.
LabelsUsed(stmt) ==
    CASE stmt.kind = "create_node" -> {stmt.source_labels}
      [] stmt.kind = "create_relationship" -> {stmt.source_labels, stmt.target_labels}
      [] stmt.kind = "retrieve" -> {stmt.source_labels}
      [] OTHER -> {}

\* C24: the label list a statement is written with is never empty: the
\* labels create_node resolves for its instance, and those of the match
\* patterns of create_relationship and retrieve_relationship_edges, hold at
\* least one label, whatever label list the class declares.
C24_LabelsNonEmpty ==
    \A c \in Calls : \A i \in 1 .. Len(calls[c].stmts) :
        \A labels \in LabelsUsed(calls[c].stmts[i]) : labels # << >>

\* C25: whatever calls overlap and whatever statements fail, a class is in
\* the constraint cache only if it has no unique field or a constraint
\* statement for it, issued on a plain session, returned without error.
C25_CachedMeansConstrained ==
    \A cls \in ModelClasses :
        cls \in _known_constraints =>
            \/ KeyFieldsOf(model_fields(cls)) = << >>
            \/ stats[cls].constrained

\* A class with unique fields is cached after one of its constraint
\* statements failed and a later one returned.
C25_Witness ==
    /\ "Person" \in _known_constraints
    /\ stats["Person"].constrained
    /\ stats["Person"].constraint_failed
    /\ stats["Person"].constraints >= 2

\* C26: a create_relationship statement that the session executes adds one
\* relationship of the bound type for every pair of a node the source
\* instance's labels and key values select and a node the target's select,
\* and no other; when a side selects no node nothing is added and the call
\* raises 'Failed to create relationship'; when the source class has no key
\* field, several nodes carry its labels and the target selects a node, more
\* than one relationship is added by the one call.
C26_OneRelationshipPerMatchedPair ==
    [][\A c \in Calls :
          (/\ calls[c].pc = "relationship"
           /\ calls'[c].pc = "done"
           /\ calls'[c].raised.kind # "SessionError") =>
              LET sources == {n.id : n \in NodesOf(calls[c].model)}
                  targets == {n.id : n \in NodesOf(calls[c].to_node)}
                  added == rels' \ rels
              IN  /\ rels \subseteq rels'
                  /\ \A a \in sources, b \in targets :
                        Cardinality({r \in added : r.start = a /\ r.end = b}) = 1
                  /\ \A r \in added :
                        /\ r.start \in sources /\ r.end \in targets
                        /\ r.type = calls[c].stmts[1].params.rel_name
                  /\ (sources = {} \/ targets = {}) =>
                        /\ added = {}
                        /\ calls'[c].returned = << >>
                        /\ calls'[c].raised = Error("CypheranticError",
                                                    "Failed to create relationship")
                  /\ (sources # {} /\ targets # {}) =>
                        /\ calls'[c].raised = NoError
                        /\ \E r \in added : calls'[c].returned = <<r.id>>
                  /\ (/\ ~HasKeys(calls[c].model)
                      /\ Cardinality(sources) > 1
                      /\ targets # {}) => Cardinality(added) > 1]_vars

\* A call between two instances of a class without key fields has returned
\* on a graph with two nodes of that class: four relationships were added.
C26_Witness ==
    \E c \in RelationshipCalls :
        /\ calls[c].model = "note" /\ calls[c].to_node = "note"
        /\ calls[c].pc = "done" /\ calls[c].raised = NoError
        /\ Cardinality(NodesOf("note")) = 2
        /\ Len(calls[c].rows) = 4
        /\ \A i \in 1 .. 4 : \E r \in rels : r.id = calls[c].rows[i][1]

\* C27: a refresh_relationship call that raises, whether in its checks, by
\* a failure of the session or because a row does not hydrate (the first
\* or a later one), leaves every relationship field as it was: the step in
\* which it fails assigns nothing, and the field named still holds what it
\* held when the call was made.
C27_FailedRefreshKeepsField ==
    /\ [][\A c \in Calls :
             (/\ calls'[c].op = "refresh_relationship"
              /\ calls[c].pc # "done" /\ calls'[c].pc = "done"
              /\ calls'[c].raised # NoError) => attrs' = attrs]_vars
    /\ [](\A c \in RefreshCalls :
             (/\ calls[c].pc = "done" /\ calls[c].raised # NoError
              /\ <<calls[c].model, calls[c].rel_property>> \in RelationFields) =>
                 attrs[<<calls[c].model, calls[c].rel_property>>] = calls[c].prior)

\* A refresh of alice.friends failed on its second row, the first having
\* hydrated, and the field still holds the edge it held before.
C27_Witness ==
    \E c \in RefreshCalls :
        /\ calls[c].model = "alice" /\ calls[c].rel_property = "friends"
        /\ calls[c].pc = "done"
        /\ calls[c].raised.kind = "ValidationError"
        /\ Len(calls[c].rows) = 2
        /\ RowValidates(nodes, rels, calls[c].edge_cls, calls[c].rows[1])
        /\ ~RowValidates(nodes, rels, calls[c].edge_cls, calls[c].rows[2])
        /\ calls[c].prior = <<StaleEdge>>
        /\ attrs[<<"alice", "friends">>] = <<StaleEdge>>

\* The calls of the operations other than create_node and the unwrap
\* functions.
GraphOpCalls ==
    {c \in Calls : calls[c].op \in {"create_relationship",
                                    "retrieve_relationship_edges",
                                    "refresh_relationship"}}

\* C28: a create_relationship, retrieve_relationship_edges or
\* refresh_relationship call issues no constraint statement and leaves the
\* constraint cache as it found it, whether or not the classes of its
\* instances are cached; it issues exactly one statement, or none when one
\* of its checks raised.
C28_OnlyCreateNodeTouchesConstraints ==
    \A c \in GraphOpCalls :
        /\ _known_constraints = calls[c].known_at_start
        /\ ~HasKind(c, "constraint")
        /\ Len(calls[c].stmts) <= 1
        /\ calls[c].stmts = << >> =>
              /\ calls[c].pc = "done"
              /\ calls[c].raised.kind \in {"CypheranticError", "InvalidValueError",
                                         "InvalidRelationshipError", "TypeError"}
        /\ Len(calls[c].stmts) = 1 =>
              calls[c].stmts[1].kind \in {"create_relationship", "retrieve"}

\* A create_relationship call has issued its statement for instances of a
\* class with unique fields that create_node was called for, in a
\* transaction, and that is not cached.
C28_Witness ==
    \E c \in GraphOpCalls :
        /\ calls[c].op = "create_relationship"
        /\ calls[c].model = "alice"
        /\ stats["Person"].calls >= 1
        /\ "Person" \notin _known_constraints
        /\ Len(calls[c].stmts) = 1
        /\ calls[c].pc = "done"

====
